---- MODULE Spec2Model ----
(***************************************************************************)
(* The Honey Badger epoch engine of src/src/honey_badger.rs.               *)
(*                                                                         *)
(* One HoneyBadger value per node of Nodes; its fields are the variables   *)
(* buffer, epoch, common_subsets, messages and output.  The CommonSubset   *)
(* type the engine drives lives in another module of the repository; its   *)
(* behaviour is modelled from the collaborator contract of the             *)
(* specification (the Acs* definitions).                                   *)
(***************************************************************************)
EXTENDS Integers, Sequences, FiniteSets, Bags, TLC

VARIABLES
    all_uids,        \* HoneyBadger.all_uids: the membership set (the same on every node)
    nodes,           \* the node ids on which the host runs an engine
    built,           \* built[i]: whether HoneyBadger::new has returned Ok on node i
    buffer,          \* buffer[i]: HoneyBadger.buffer, a Vec<T>
    epoch,           \* epoch[i]: HoneyBadger.epoch
    common_subsets,  \* common_subsets[i]: HoneyBadger.common_subsets, BTreeMap<u64, CommonSubset>
    messages,        \* messages[i]: HoneyBadger.messages, the outbound VecDeque
    output,          \* output[i]: HoneyBadger.output, the VecDeque<Batch>
    decided,         \* decided[e]: the map the ACS of epoch e has agreed on, or NoMap
    net,             \* the bag of messages of engines in flight to other engines
    call,            \* the call made last, when it was new or handle_message with a message
                     \* of the environment: the node, the epoch of the message, whether own
                     \* id or sender is a member, the transactions given to new, and what
                     \* it returned; Quiet otherwise
    failed,          \* failed[i]: a call on node i has returned Bincode
    emitted,         \* emitted[i]: epoch -> transaction set of every batch queued so far
    proposed,        \* proposed[i]: epoch -> number of proposals node i has input to that ACS
    returned         \* returned[i]: how many batches next_output has handed out on node i

vars == <<all_uids, nodes, built, buffer, epoch, common_subsets, messages, output,
          decided, net, call, failed, emitted, proposed, returned>>

(***************************************************************************)
(* Bounds of the model.                                                    *)
(***************************************************************************)
MaxEpoch == 1       \* inbound messages carry an epoch in 0..MaxEpoch
MaxTx == 2          \* transactions are 1..MaxTx
MaxBuf == 2         \* the buffer is not extended beyond MaxBuf elements
MaxMsgs == 0        \* the host calls next_message until at most MaxMsgs outbound messages
                    \* wait, before it calls another operation
BatchSize == 2      \* the batch_size every engine is constructed with
MaxSample == 3      \* where proposals are sampled, new is given up to MaxSample transactions

Nodes == {1, 2}                \* ids of the nodes that may run an engine
Ids == 1..4                    \* ids a membership set is drawn from
Ghost == Cardinality(Ids) + 1  \* a node id that is in no membership set
Tx == 1..MaxTx
MsgEpochs == 0..MaxEpoch
Epochs == 0..(MaxEpoch + 1)
NoMap == <<>>

Range(s) == {s[k] : k \in DOMAIN s}

SeqsUpTo(S, n) == UNION {[1..k -> S] : k \in 0..n}

(***************************************************************************)
(* bincode: a Vec<T> is its length followed by its elements.               *)
(***************************************************************************)
Serialize(v) == <<Len(v)>> \o v

Decodable(b) == /\ Len(b) >= 1
                /\ b[1] = Len(b) - 1
                /\ \A k \in 2..Len(b) : b[k] \in Tx

Deserialize(b) == SubSeq(b, 2, Len(b))

\* A proposal whose length prefix promises more elements than follow.
BadProposal == <<2, 1>>

\* What the first of the members that run no engine here may have proposed; the
\* others of them propose nothing (an empty Vec).
EnvProposals == {Serialize(<<1>>), Serialize(<<2, 1>>), BadProposal}


(***************************************************************************)
(* rand::seq::sample_iter over a window of w elements: the reservoir holds *)
(* the first `amount` positions, and every later position replaces a       *)
(* random slot or is skipped.  Reservoirs(w, amount) is the set of         *)
(* position sequences it can return.                                       *)
(***************************************************************************)
RECURSIVE Reservoirs(_, _)
Reservoirs(w, amount) ==
    IF w <= amount
    THEN {[k \in 1..w |-> k]}
    ELSE LET prev == Reservoirs(w - 1, amount)
         IN  prev \cup {[r EXCEPT ![k] = w] : r \in prev, k \in 1..amount}

Max(a, b) == IF a >= b THEN a ELSE b
Min(a, b) == IF a <= b THEN a ELSE b

Amount(uids) == Max(1, BatchSize \div Cardinality(uids))
\* Window with the whole buffer, not its first batch_size elements.
Window_whole(buf) == Len(buf)

Window(buf) == Min(BatchSize, Len(buf))

\* choose_transactions, with the positions rand::thread_rng makes it pick:
\* r is one of Reservoirs(Window(buf), Amount(uids)).
choose_transactions(buf, r) == Serialize([k \in 1..Len(r) |-> buf[r[k]]])

(***************************************************************************)
(* The CommonSubset collaborator.  An instance records the proposal it was *)
(* given (at most the calls the engine makes), the senders it has heard    *)
(* from, where its single output is (none, ready, taken) and whether it    *)
(* has terminated.  Its output is the map decided for its epoch: agreement *)
(* makes that map the same on every node.                                  *)
(***************************************************************************)
AcsNew == [proposal |-> <<>>, received |-> {}, out |-> "none", term |-> FALSE]

Faulty(uids) == (Cardinality(uids) - 1) \div 3

AcsKnown(cs, id) == cs.received \cup (IF cs.proposal # <<>> THEN {id} ELSE {})

\* Whether node j has given a proposal to its instance of epoch e, and which.
HasProposed(j, e) ==
    e \in DOMAIN common_subsets[j] /\ common_subsets[j][e].proposal # <<>>

ProposalOf(j, e) ==
    IF HasProposed(j, e) THEN common_subsets[j][e].proposal[1] ELSE Serialize(<<>>)

\* The instance after an input or a message: its output becomes ready as soon as
\* it knows every proposal of the decided map, or, when nothing is decided yet,
\* as soon as it knows n - f proposals, which then are the decided map (envp
\* gives the proposals of the nodes that run no engine here; of an engine that
\* has sent messages before it has proposed, no proposal is known).  t: whether the
\* instance terminates with this event.  The result is the instance, the
\* decided maps and the messages the instance has emitted.
AcsEvent(cs, id, e, dec, envp, t, first) ==
    LET heard == AcsKnown(cs, id)
        known == {j \in heard : j \in nodes \ {id} => HasProposed(j, e)}
        ready == /\ cs.out = "none"
                 /\ IF dec[e] # NoMap
                    THEN DOMAIN dec[e] \subseteq heard
                    ELSE Cardinality(known) >= Cardinality(all_uids) - Faulty(all_uids)
        map   == [j \in known |-> IF j = id THEN cs.proposal[1]
                                  ELSE IF j \in nodes THEN ProposalOf(j, e)
                                  ELSE IF j \in DOMAIN envp THEN envp[j]
                                  ELSE Serialize(<<>>)]
        out2  == IF ready THEN "ready" ELSE cs.out
    IN  [cs   |-> [cs EXCEPT !.out = out2,
                             !.term = cs.term \/ (t /\ out2 # "none")],
         dec  |-> IF ready /\ dec[e] = NoMap THEN [dec EXCEPT ![e] = map] ELSE dec,
         msgs |-> first \o (IF ready THEN <<"ready">> ELSE <<>>)]

\* CommonSubset::input
AcsInput(cs, id, e, proposal, dec, envp, t) ==
    AcsEvent([cs EXCEPT !.proposal = Append(@, proposal)], id, e, dec, envp, t, <<"value">>)

\* CommonSubset::handle_message.  err: the instance finds the message faulty; it
\* rejects it with an error and stays as it is.
AcsHandleMessage(cs, id, e, sender, dec, envp, t, err) ==
    IF err THEN [cs |-> cs, dec |-> dec, msgs |-> <<>>, ret |-> "CommonSubset"]
    ELSE [ret |-> "Ok"] @@
         AcsEvent([cs EXCEPT !.received = @ \cup {sender}], id, e, dec, envp, t,
                  IF sender \in cs.received THEN <<>> ELSE <<"echo">>)


(***************************************************************************)
(* The engine.  hb is one HoneyBadger value: its fields buffer, epoch,     *)
(* common_subsets, messages and output, and with them what the properties  *)
(* observe of its history: emitted (the batches it has queued) and         *)
(* proposed (how often it has input a proposal, by epoch).  Every          *)
(* operation yields the engine, the decided maps and the value returned.   *)
(***************************************************************************)
\* Wrap with the messages of the instance taken last to first.
Wrap_reversed(msgs, e) ==
    [k \in DOMAIN msgs |-> [epoch |-> e, msg |-> msgs[Len(msgs) + 1 - k]]]

\* The loops of lines 127-131 and 173-176: every message of the instance, in the
\* order the instance gives them, as Message::CommonSubset(e, _).
Wrap(msgs, e) == [k \in DOMAIN msgs |-> [epoch |-> e, msg |-> msgs[k]]]

\* What an ACS event may be given: envp matters only when the event decides the
\* map of its epoch, t only once the instance has its output.
DefaultEnv == [j \in all_uids \ nodes |-> Serialize(<<>>)]
EnvMaps == {[j \in all_uids \ nodes |->
                IF \A k \in all_uids \ nodes : j <= k THEN p ELSE Serialize(<<>>)] :
            p \in EnvProposals}

NoChoice == [r |-> <<>>, envp |-> DefaultEnv, t |-> FALSE, err |-> FALSE]

EventChoices(cs, id, e, dec) ==
    LET r == AcsEvent(cs, id, e, dec, DefaultEnv, FALSE, <<>>)
    IN  [envp : IF r.dec # dec THEN EnvMaps ELSE {DefaultEnv},
         t    : IF r.cs.out # "none" THEN BOOLEAN ELSE {FALSE},
         err  : {FALSE}]

\* What handle_message of an instance may be given: the above, or a faulty message.
MessageChoices(cs, id, e, dec) ==
    EventChoices(cs, id, e, dec) \cup {[NoChoice EXCEPT !.err = TRUE]}

InstanceOf(hb, e) ==
    IF e \in DOMAIN hb.common_subsets THEN hb.common_subsets[e] ELSE AcsNew

\* propose, lines 118-133.  c: the sample positions and the ACS's choices.
propose(hb, id, dec, c) ==
    LET proposal == choose_transactions(hb.buffer, c.r)
        r == AcsInput(InstanceOf(hb, hb.epoch), id, hb.epoch, proposal, dec, c.envp, c.t)
    IN  [hb  |-> [hb EXCEPT !.common_subsets = (hb.epoch :> r.cs) @@ @,
                            !.messages = @ \o Wrap(r.msgs, hb.epoch),
                            !.proposed = (hb.epoch :>
                                (IF hb.epoch \in DOMAIN @ THEN @[hb.epoch] + 1 ELSE 1)) @@ @],
         dec |-> r.dec,
         ret |-> "Ok"]

ProposeChoices(hb, id, dec) ==
    LET cs == [InstanceOf(hb, hb.epoch) EXCEPT !.proposal = Append(@, Serialize(<<>>))]
        ec == EventChoices(cs, id, hb.epoch, dec)
    IN  {[r |-> r, envp |-> x.envp, t |-> x.t, err |-> FALSE] :
            r \in Reservoirs(Window(hb.buffer), Amount(all_uids)), x \in ec}

\* take_current_output, lines 220-224: whether it returns Some.
has_current_output(hb) ==
    /\ hb.epoch \in DOMAIN hb.common_subsets
    /\ hb.common_subsets[hb.epoch].out = "ready"

\* Transactions with the first transaction of every proposal only.
Transactions_heads(map) ==
    UNION {IF Deserialize(map[j]) = <<>> THEN {} ELSE {Head(Deserialize(map[j]))} :
           j \in DOMAIN map}

\* The transactions of an ACS output, lines 192-198.
Transactions(map) == UNION {Range(Deserialize(map[j])) : j \in DOMAIN map}

AllDecodable(map) == \A j \in DOMAIN map : Decodable(map[j])

\* Vec::retain, line 200.
RECURSIVE Retain(_, _)
Retain(buf, drop) ==
    IF buf = <<>> THEN <<>>
    ELSE IF Head(buf) \in drop THEN Retain(Tail(buf), drop)
    ELSE <<Head(buf)>> \o Retain(Tail(buf), drop)

\* emit_batch with the epoch advanced before the batch is built.
emit_batch_after_advance(hb, transactions) ==
    [hb EXCEPT !.buffer = Retain(@, transactions),
               !.output = Append(@, [epoch |-> hb.epoch + 1, transactions |-> transactions]),
               !.emitted = (hb.epoch :> transactions) @@ @,
               !.epoch = @ + 1]

\* emit_batch without the retain of line 200.
emit_batch_unpruned(hb, transactions) ==
    [hb EXCEPT !.output = Append(@, [epoch |-> hb.epoch, transactions |-> transactions]),
               !.emitted = (hb.epoch :> transactions) @@ @,
               !.epoch = @ + 1]

\* emit_batch with the batch made of what the retain has removed from the buffer.
emit_batch_removed(hb, transactions) ==
    LET removed == transactions \cap Range(hb.buffer)
    IN  [hb EXCEPT !.buffer = Retain(@, transactions),
                   !.output = Append(@, [epoch |-> hb.epoch, transactions |-> removed]),
                   !.emitted = (hb.epoch :> removed) @@ @,
                   !.epoch = @ + 1]

\* Lines 199-210: prune the buffer, queue the batch, advance the epoch.
emit_batch(hb, transactions) ==
    [hb EXCEPT !.buffer = Retain(@, transactions),
               !.output = Append(@, [epoch |-> hb.epoch, transactions |-> transactions]),
               !.emitted = (hb.epoch :> transactions) @@ @,
               !.epoch = @ + 1]

\* drain_outputs with the buffer pruned of every proposal that decodes before the
\* error of one that does not is returned.
RECURSIVE drain_outputs_late_error(_, _)
drain_outputs_late_error(hb, dec) ==
    IF ~has_current_output(hb) THEN [hb |-> hb, ret |-> "Ok"]
    ELSE LET taken == [hb EXCEPT !.common_subsets[hb.epoch].out = "taken"]
             map == dec[hb.epoch]
             good == [j \in {k \in DOMAIN map : Decodable(map[k])} |-> map[j]]
         IN  IF ~AllDecodable(map)
             THEN [hb |-> [taken EXCEPT !.buffer = Retain(@, Transactions(good))],
                   ret |-> "Bincode"]
             ELSE drain_outputs_late_error(emit_batch(taken, Transactions(map)), dec)

\* The while loop of process_output, lines 190-211.  A proposal that does not
\* decode ends the call with Bincode after the output has been taken.
RECURSIVE drain_outputs(_, _)
drain_outputs(hb, dec) ==
    IF ~has_current_output(hb) THEN [hb |-> hb, ret |-> "Ok"]
    ELSE LET taken == [hb EXCEPT !.common_subsets[hb.epoch].out = "taken"]
             map == dec[hb.epoch]
         IN  IF ~AllDecodable(map) THEN [hb |-> taken, ret |-> "Bincode"]
             ELSE drain_outputs(emit_batch(taken, Transactions(map)), dec)

\* process_output without the propose of lines 213-215.
process_output_silent(hb, id, dec, c) ==
    LET d == drain_outputs(hb, dec)
    IN  [hb |-> d.hb, dec |-> dec, ret |-> d.ret]

\* process_output proposing whether or not the epoch has advanced.
process_output_reproposes(hb, id, dec, c) ==
    LET d == drain_outputs(hb, dec)
    IN  IF d.ret # "Ok" THEN [hb |-> d.hb, dec |-> dec, ret |-> d.ret]
        ELSE propose(d.hb, id, dec, c)

\* process_output, lines 188-217.
process_output(hb, id, dec, c) ==
    LET d == drain_outputs(hb, dec)
    IN  IF d.ret # "Ok" THEN [hb |-> d.hb, dec |-> dec, ret |-> d.ret]
        ELSE IF d.hb.epoch > hb.epoch THEN propose(d.hb, id, dec, c)
        ELSE [hb |-> d.hb, dec |-> dec, ret |-> "Ok"]

\* remove_terminated looking at from_epoch alone, not at the range up to the epoch.
remove_terminated_first(hb, from_epoch) ==
    LET gone == {e \in {from_epoch} :
                    /\ e < hb.epoch
                    /\ e \in DOMAIN hb.common_subsets /\ hb.common_subsets[e].term}
    IN  [hb EXCEPT !.common_subsets =
            [e \in DOMAIN hb.common_subsets \ gone |-> hb.common_subsets[e]]]

\* remove_terminated with the range of line 228 including the current epoch.
remove_terminated_through(hb, from_epoch) ==
    LET gone == {e \in from_epoch..hb.epoch :
                    e \in DOMAIN hb.common_subsets /\ hb.common_subsets[e].term}
    IN  [hb EXCEPT !.common_subsets =
            [e \in DOMAIN hb.common_subsets \ gone |-> hb.common_subsets[e]]]

\* remove_terminated without the test of lines 229-232: every instance of the
\* range is removed.
remove_terminated_any(hb, from_epoch) ==
    LET gone == {e \in from_epoch..(hb.epoch - 1) : e \in DOMAIN hb.common_subsets}
    IN  [hb EXCEPT !.common_subsets =
            [e \in DOMAIN hb.common_subsets \ gone |-> hb.common_subsets[e]]]

\* remove_terminated, lines 227-237.
remove_terminated(hb, from_epoch) ==
    LET gone == {e \in from_epoch..(hb.epoch - 1) :
                    e \in DOMAIN hb.common_subsets /\ hb.common_subsets[e].term}
    IN  [hb EXCEPT !.common_subsets =
            [e \in DOMAIN hb.common_subsets \ gone |-> hb.common_subsets[e]]]

\* The first block of handle_common_subset_message, lines 159-177: whether the
\* message is obsolete, and the engine once the instance has handled it.
\* obsolete without the test of line 164: a missing instance is always created.
obsolete_never(hb, e) == FALSE

\* obsolete with the test of line 164 off by one.
obsolete_before_last(hb, e) == e \notin DOMAIN hb.common_subsets /\ e + 1 < hb.epoch

obsolete(hb, e) == e \notin DOMAIN hb.common_subsets /\ e < hb.epoch

\* deliver with the instance looked up under the engine's epoch, not the message's.
deliver_to_current(hb, id, sender, e, dec, c) ==
    LET r == AcsHandleMessage(InstanceOf(hb, hb.epoch), id, hb.epoch, sender, dec,
                              c.envp, c.t, c.err)
    IN  [hb  |-> [hb EXCEPT !.common_subsets = (hb.epoch :> r.cs) @@ @,
                            !.messages = @ \o Wrap(r.msgs, hb.epoch)],
         dec |-> r.dec,
         ret |-> r.ret]

deliver(hb, id, sender, e, dec, c) ==
    LET r == AcsHandleMessage(InstanceOf(hb, e), id, e, sender, dec, c.envp, c.t, c.err)
    IN  [hb  |-> [hb EXCEPT !.common_subsets = (e :> r.cs) @@ @,
                            !.messages = @ \o Wrap(r.msgs, e)],
         dec |-> r.dec,
         ret |-> r.ret]

\* handle_common_subset_message, lines 153-184.
handle_common_subset_message(hb, id, sender, e, dec, c1, c2) ==
    IF obsolete(hb, e) THEN [hb |-> hb, dec |-> dec, ret |-> "Ok"]
    ELSE LET a == deliver(hb, id, sender, e, dec, c1)
             b == IF a.ret # "Ok" THEN a
                  ELSE IF e = a.hb.epoch THEN process_output(a.hb, id, a.dec, c2)
                  ELSE a
         IN  IF b.ret # "Ok" THEN b
             ELSE [hb |-> remove_terminated(b.hb, e), dec |-> b.dec, ret |-> "Ok"]

\* handle_message without the membership test of lines 54-56.
handle_message_unchecked(hb, id, sender, e, dec, c1, c2) ==
    handle_common_subset_message(hb, id, sender, e, dec, c1, c2)

\* handle_message, lines 53-62.
handle_message(hb, id, sender, e, dec, c1, c2) ==
    IF sender \notin all_uids
    THEN [hb |-> hb, dec |-> dec, ret |-> "UnknownSender"]
    ELSE handle_common_subset_message(hb, id, sender, e, dec, c1, c2)

\* add_transactions, lines 112-115.
add_transactions(hb, txs) == [hb EXCEPT !.buffer = @ \o txs]

\* The struct literal of new, lines 97-106.
Fresh(txs) == [buffer |-> txs, epoch |-> 0, common_subsets |-> <<>>, messages |-> <<>>,
               output |-> <<>>, emitted |-> <<>>, proposed |-> <<>>]

\* new without the membership test of lines 94-96.
new_unchecked(id, txs, dec, c) == propose(Fresh(txs), id, dec, c)

\* new, lines 88-109.  With OwnIdMissing no engine is returned.
new(id, txs, dec, c) ==
    IF id \notin all_uids
    THEN [hb |-> Fresh(<<>>), dec |-> dec, ret |-> "OwnIdMissing"]
    ELSE propose(Fresh(txs), id, dec, c)


(***************************************************************************)
(* The host: it constructs the engines and calls their public operations   *)
(* in any order.  Messages an engine hands out travel to the other engines *)
(* through net; the members that run no engine here send what they like.   *)
(***************************************************************************)
Engine(i) == [buffer |-> buffer[i], epoch |-> epoch[i],
              common_subsets |-> common_subsets[i], messages |-> messages[i],
              output |-> output[i], emitted |-> emitted[i], proposed |-> proposed[i]]

Call(op, i, ret, member, e, txs) ==
    [op |-> op, node |-> i, ret |-> ret, member |-> member, epoch |-> e, txs |-> txs]

Quiet == Call("other", 0, "Ok", TRUE, 0, <<>>)

\* The engine of node i becomes e.
Store(i, e) ==
    \E hb \in {e} :
        /\ buffer' = [buffer EXCEPT ![i] = hb.buffer]
        /\ epoch' = [epoch EXCEPT ![i] = hb.epoch]
        /\ common_subsets' = [common_subsets EXCEPT ![i] = hb.common_subsets]
        /\ messages' = [messages EXCEPT ![i] = hb.messages]
        /\ output' = [output EXCEPT ![i] = hb.output]
        /\ emitted' = [emitted EXCEPT ![i] = hb.emitted]
        /\ proposed' = [proposed EXCEPT ![i] = hb.proposed]

EngineVars == <<buffer, epoch, common_subsets, messages, output, emitted, proposed>>

InitWith(uids, ns) ==
    /\ all_uids = uids
    /\ nodes = ns
    /\ built = [i \in Nodes |-> FALSE]
    /\ buffer = [i \in Nodes |-> <<>>]
    /\ epoch = [i \in Nodes |-> 0]
    /\ common_subsets = [i \in Nodes |-> <<>>]
    /\ messages = [i \in Nodes |-> <<>>]
    /\ output = [i \in Nodes |-> <<>>]
    /\ decided = [e \in Epochs |-> NoMap]
    /\ net = EmptyBag
    /\ call = Quiet
    /\ failed = [i \in Nodes |-> FALSE]
    /\ emitted = [i \in Nodes |-> <<>>]
    /\ proposed = [i \in Nodes |-> <<>>]
    /\ returned = [i \in Nodes |-> 0]

\* The host calls an engine once it is constructed, and discards it when a call
\* has returned the fatal Bincode error.
Live(i) == built[i] /\ ~failed[i]

\* The decided map of an epoch is forgotten once every engine has consumed it.
Forget(dec, eps) ==
    [e \in Epochs |-> IF \A i \in nodes : eps[i] > e THEN NoMap ELSE dec[e]]

\* HoneyBadger::new(id, all_uids, BatchSize, txs) on node i, with id among ids
\* and txs among txss.
NewWith(i, ids, txss) ==
    /\ i \in nodes /\ ~built[i]
    /\ \E id \in ids, txs \in txss :
         \E c \in IF id \in all_uids THEN ProposeChoices(Fresh(txs), id, decided)
                  ELSE {NoChoice} :
         \E r \in {new(id, txs, decided, c)} :
           /\ IF r.ret = "Ok"
              THEN /\ Store(i, r.hb)
                   /\ decided' = r.dec
                   /\ built' = [built EXCEPT ![i] = TRUE]
              ELSE UNCHANGED <<built, EngineVars, decided>>
           /\ call' = Call("new", i, r.ret, id \in all_uids, 0, txs)
    /\ UNCHANGED <<all_uids, nodes, net, failed, returned>>

New(i) == NewWith(i, {i, Ghost}, SeqsUpTo(Tx, MaxBuf))

\* input(tx), lines 49-51.
Input(i) ==
    /\ Live(i) /\ Len(buffer[i]) < MaxBuf /\ Len(messages[i]) <= MaxMsgs
    /\ \E tx \in Tx : Store(i, add_transactions(Engine(i), <<tx>>))
    /\ call' = Quiet
    /\ UNCHANGED <<all_uids, nodes, built, decided, net, failed, returned>>

\* add_transactions(txs) with several transactions.
AddTransactions(i) ==
    /\ Live(i) /\ Len(messages[i]) <= MaxMsgs
    /\ \E txs \in SeqsUpTo(Tx, MaxBuf - Len(buffer[i])) :
         /\ Len(txs) >= 2
         /\ Store(i, add_transactions(Engine(i), txs))
    /\ call' = Quiet
    /\ UNCHANGED <<all_uids, nodes, built, decided, net, failed, returned>>

\* handle_message(sender, CommonSubset(e, _)) on node i, and what it leaves.
\* env: the message comes from the environment, not from an engine of the
\* group; it may be one the instance rejects.
Handle(i, sender, e, env) ==
    \E hb \in {Engine(i)} :
    \E accepted \in {(sender \in all_uids) /\ ~obsolete(hb, e)} :
    \E c1 \in IF accepted
              THEN {c \in MessageChoices([InstanceOf(hb, e) EXCEPT
                                             !.received = @ \cup {sender}], i, e, decided) :
                      c.err => env}
              ELSE {NoChoice} :
    \E a \in {deliver(hb, i, sender, e, decided, c1)} :
    \E d \in {drain_outputs(a.hb, a.dec)} :
    \E c2 \in IF accepted /\ a.ret = "Ok" /\ e = hb.epoch /\ d.ret = "Ok"
                    /\ d.hb.epoch > hb.epoch
              THEN ProposeChoices(d.hb, i, a.dec)
              ELSE {NoChoice} :
    \E r \in {handle_message(hb, i, sender, e, decided, c1, c2)} :
        /\ Len(hb.messages) <= MaxMsgs
        /\ Store(i, r.hb)
        /\ decided' = Forget(r.dec, [epoch EXCEPT ![i] = r.hb.epoch])
        /\ failed' = [failed EXCEPT ![i] = @ \/ r.ret = "Bincode"]
        /\ call' = IF env THEN Call("handle_message", i, r.ret, sender \in all_uids, e, <<>>)
                   ELSE Quiet

\* A message from a member that runs no engine here, or from a stranger.
HandleMessage(i) ==
    /\ Live(i)
    /\ \E sender \in (all_uids \ nodes) \cup {Ghost}, e \in MsgEpochs : Handle(i, sender, e, TRUE)
    /\ UNCHANGED <<all_uids, nodes, built, net, returned>>

\* A message of another engine arrives; the messages of the epochs below MaxEpoch
\* are delivered.
Deliver(i) ==
    /\ Live(i)
    /\ \E m \in BagToSet(net) :
         /\ m.to = i /\ m.epoch < MaxEpoch
         /\ Handle(i, m.from, m.epoch, FALSE)
         /\ net' = net (-) SetToBag({m})
    /\ UNCHANGED <<all_uids, nodes, built, returned>>

\* next_message, lines 64-66: a broadcast goes to every other engine.  On an
\* empty queue it returns None and nothing changes.
NextMessage(i) ==
    /\ Live(i)
    /\ IF messages[i] = <<>>
       THEN UNCHANGED <<messages, net, call>>
       ELSE /\ messages' = [messages EXCEPT ![i] = Tail(@)]
            /\ net' = net (+) SetToBag({[to |-> j, from |-> i,
                                         epoch |-> Head(messages[i]).epoch,
                                         msg |-> Head(messages[i]).msg] : j \in nodes \ {i}})
            /\ call' = Quiet
    /\ UNCHANGED <<all_uids, nodes, built, buffer, epoch, common_subsets, output,
                   decided, failed, emitted, proposed, returned>>

\* next_output, lines 68-70.  On an empty queue it returns None and nothing changes.
NextOutput(i) ==
    /\ Live(i) /\ Len(messages[i]) <= MaxMsgs
    /\ IF output[i] = <<>>
       THEN UNCHANGED <<output, returned, call>>
       ELSE /\ output' = [output EXCEPT ![i] = Tail(@)]
            /\ returned' = [returned EXCEPT ![i] = @ + 1]
            /\ call' = Quiet
    /\ UNCHANGED <<all_uids, nodes, built, buffer, epoch, common_subsets, messages,
                   decided, net, failed, emitted, proposed>>

\* One engine among four members; the other three are the environment.
Init == InitWith(Ids, {1})

Next == \E i \in Nodes :
          \/ New(i)
          \/ Input(i)
          \/ AddTransactions(i)
          \/ HandleMessage(i)
          \/ NextMessage(i)
          \/ NextOutput(i)

Spec == Init /\ [][Next]_vars

\* A group of two engines, each constructed with a non-empty list of distinct
\* transactions in ascending order.
GroupInit == InitWith(Nodes, Nodes)

GroupTxs == {txs \in SeqsUpTo(Tx, MaxBuf) :
                txs # <<>> /\ \A k \in 2..Len(txs) : txs[k - 1] < txs[k]}

GroupNext == \E i \in Nodes :
               \/ NewWith(i, {i}, GroupTxs)
               \/ Input(i)
               \/ Deliver(i)
               \/ NextMessage(i)
               \/ NextOutput(i)

GroupSpec == GroupInit /\ [][GroupNext]_vars

\* A group of one: the engine is its only member.  The host goes on polling
\* next_message and next_output.
LiveInit == InitWith({1}, {1})

LiveSpec == /\ LiveInit /\ [][Next]_vars
            /\ \A i \in Nodes : WF_vars(NextMessage(i)) /\ WF_vars(NextOutput(i))

\* Sampling: one engine, constructed in a group of any size with any list of up
\* to MaxSample transactions.
SampleInit == \E n \in 1..Cardinality(Ids) : InitWith(1..n, {1})

SampleNext == \E i \in Nodes :
                \/ NewWith(i, {i}, SeqsUpTo(Tx, MaxSample))
                \/ NextMessage(i)

SampleSpec == SampleInit /\ [][SampleNext]_vars


(***************************************************************************)
(* Properties.                                                             *)
(***************************************************************************)
Registry(i) == DOMAIN common_subsets[i]

\* A call of handle_message from a member has just returned.
Handled == call.op = "handle_message" /\ call.member

\* C1: the k-th batch next_output returns has epoch k: the queued batches carry
\* the consecutive epochs that follow the batches already returned and end just
\* below the epoch counter, and the epoch counter never decreases.
C1_EpochOrder ==
    [][\A i \in Nodes :
         /\ epoch'[i] >= epoch[i]
         /\ returned'[i] = returned[i] + 1 => Head(output[i]).epoch = returned[i]
         /\ \A k \in 1..Len(output'[i]) : output'[i][k].epoch = returned'[i] + k - 1
         /\ returned'[i] + Len(output'[i]) = epoch'[i]]_vars

\* Two batches have been returned, a third epoch has begun.
C1_Witness == \E i \in Nodes : returned[i] >= 2 /\ epoch[i] >= 2

\* C2: two engines of a group that have queued a batch of the same epoch have
\* queued the same set of transactions.
C2_Agreement ==
    \A i \in Nodes, j \in Nodes : \A e \in DOMAIN emitted[i] \cap DOMAIN emitted[j] :
        emitted[i][e] = emitted[j][e]

\* Both engines have queued the batch of epoch 0 with every transaction in it,
\* and their buffers differ.
C2_Witness ==
    /\ \A i \in Nodes : 0 \in DOMAIN emitted[i] /\ emitted[i][0] = Tx
    /\ \E i \in Nodes, j \in Nodes : buffer[i] # buffer[j]

\* C3: handle_message from a sender outside all_uids returns UnknownSender and
\* changes no field of the engine.
C3_UnknownSender ==
    [][(call'.op = "handle_message" /\ ~call'.member)
         => /\ call'.ret = "UnknownSender"
            /\ UNCHANGED <<buffer, epoch, common_subsets, messages, output>>]_vars

\* A stranger's message for an epoch that has an instance has been rejected.
C3_Witness ==
    /\ call.op = "handle_message" /\ ~call.member /\ call.ret = "UnknownSender"
    /\ call.epoch \in Registry(call.node)
    /\ epoch[call.node] >= 1

C6_NoResurrection ==
    [][\A i \in Nodes : \A e \in Epochs :
         (e < epoch[i] /\ e \notin Registry(i)) => e \notin Registry(i)']_vars

\* Epoch 0 is two epochs back and has no instance, and a message for it has come.
C6_Witness ==
    /\ Handled /\ call.epoch = 0
    /\ epoch[call.node] = 2 /\ 0 \notin Registry(call.node)

\* C7 as stated: when next_output returns a batch, none of its transactions is
\* in the buffer.
C7_AsStated ==
    [][\A i \in Nodes :
         returned'[i] = returned[i] + 1
         => Head(output[i]).transactions \cap Range(buffer'[i]) = {}]_vars

\* C7, amended: when a call queues a batch, none of the batch's transactions is
\* in the buffer as the call returns.
C7_PrunedWhenQueued ==
    [][\A i \in Nodes : \A k \in (Len(output[i]) + 1)..Len(output'[i]) :
         output'[i][k].transactions \cap Range(buffer'[i]) = {}]_vars

\* A batch with a transaction has been queued, and the buffer still holds another.
C7_Witness ==
    \E i \in Nodes : /\ Handled /\ call.node = i
                     /\ output[i] # <<>>
                     /\ output[i][Len(output[i])].transactions # {}
                     /\ buffer[i] # <<>>

\* C8: a member's message for a future epoch is delivered to the instance of
\* that epoch and changes neither the epoch counter nor the batch queue; the
\* batches queued so far are those of all epochs below the counter.
C8_FutureEpochRouted ==
    [][\A i \in Nodes :
         /\ (call'.op = "handle_message" /\ call'.node = i /\ call'.member
               /\ call'.epoch > epoch[i])
            => /\ call'.ret \in {"Ok", "CommonSubset"}
               /\ Registry(i)' = Registry(i) \cup {call'.epoch}
               /\ call'.ret = "Ok" => common_subsets'[i][call'.epoch].received # {}
               /\ \A e \in Registry(i) \ {call'.epoch} :
                     common_subsets'[i][e] = common_subsets[i][e]
               /\ epoch'[i] = epoch[i]
               /\ output'[i] = output[i]
         /\ DOMAIN emitted'[i] = 0..(epoch'[i] - 1)]_vars

\* A message has made the output of a future epoch ready, and no batch of that
\* epoch is queued.
C8_Witness ==
    /\ Handled /\ call.epoch > epoch[call.node]
    /\ common_subsets[call.node][call.epoch].out = "ready"

\* C9: once every engine of the group holds a transaction, every engine
\* eventually queues the batch of every epoch.
C9_Totality ==
    \A e \in MsgEpochs :
        (\A i \in nodes : built[i] /\ buffer[i] # <<>>)
            ~> (\A i \in nodes : e \in DOMAIN emitted[i])

\* C10: an engine that is the only member of its group and was constructed with
\* transactions eventually returns a first batch from next_output.
C10_SingleNodeFirstBatch ==
    \A i \in Nodes :
        (built[i] /\ all_uids = {i} /\ ProposalOf(i, 0) # Serialize(<<>>))
            ~> (returned[i] >= 1)

C12_OwnIdMissing ==
    [][\A i \in Nodes :
         (call'.op = "new" /\ call'.node = i)
         => IF ~call'.member
            THEN /\ call'.ret = "OwnIdMissing"
                 /\ ~built'[i]
                 /\ Registry(i)' = {} /\ proposed'[i] = <<>>
                 /\ buffer'[i] = <<>> /\ messages'[i] = <<>> /\ output'[i] = <<>>
            ELSE /\ call'.ret = "Ok"
                 /\ built'[i]
                 /\ epoch'[i] = 0
                 /\ buffer'[i] = call'.txs]_vars

\* new has been called with transactions and an id that is no member.
C12_Witness ==
    /\ call.op = "new" /\ ~call.member /\ call.ret = "OwnIdMissing"
    /\ call.txs # <<>>
    /\ ~built[call.node]

C14_ProposalSample ==
    \A i \in Nodes :
        built[i] =>
          LET p == common_subsets[i][0].proposal[1]
              v == SubSeq(p, 2, Len(p))
              n == Cardinality(all_uids)
              amount == IF BatchSize \div n >= 1 THEN BatchSize \div n ELSE 1
              w == IF BatchSize <= Len(buffer[i]) THEN BatchSize ELSE Len(buffer[i])
          IN  /\ Len(common_subsets[i][0].proposal) = 1
              /\ p[1] = Len(v)
              /\ Len(v) = (IF amount <= w THEN amount ELSE w)
              /\ \E r \in [1..Len(v) -> 1..w] :
                    /\ \A k \in 1..Len(v), l \in 1..Len(v) : r[k] = r[l] => k = l
                    /\ \A k \in 1..Len(v) : v[k] = buffer[i][r[k]]
              /\ call.op = "new" => call.ret = "Ok"

\* The buffer is longer than the window, one transaction is to be sampled, and
\* the proposal holds the second of the window, which differs from the first
\* and from the one beyond the window.
C14_Witness ==
    \E i \in Nodes :
        /\ built[i] /\ Len(buffer[i]) > BatchSize
        /\ BatchSize \div Cardinality(all_uids) = 1
        /\ buffer[i][1] # buffer[i][2] /\ buffer[i][Len(buffer[i])] # buffer[i][2]
        /\ common_subsets[i][0].proposal = <<Serialize(<<buffer[i][2]>>)>>

\* C15: the engine inputs its proposal at most once per epoch, and only into the
\* instance of its current epoch: a proposal is input by new, and by a call that
\* has advanced the epoch, once, into the instance of the epoch the call ends
\* in; an instance never holds more than one proposal, and the proposals made
\* stay as they are.
C15_ProposeOncePerEpoch ==
    [][\A i \in Nodes :
         /\ \A e \in DOMAIN proposed'[i] : proposed'[i][e] = 1
         /\ DOMAIN proposed[i] \subseteq DOMAIN proposed'[i]
         /\ \A e \in DOMAIN proposed'[i] \ DOMAIN proposed[i] :
               /\ e = epoch'[i]
               /\ (call'.op = "new" /\ call'.node = i) \/ epoch'[i] > epoch[i]
         /\ (epoch'[i] > epoch[i] /\ ~failed'[i]) => epoch'[i] \in DOMAIN proposed'[i]
         /\ \A e \in Registry(i)' :
               /\ Len(common_subsets'[i][e].proposal) <= 1
               /\ Len(common_subsets'[i][e].proposal) = 1 => e \in DOMAIN proposed'[i]
               /\ e \in Registry(i) /\ e \in DOMAIN proposed[i]
                    => common_subsets'[i][e].proposal = common_subsets[i][e].proposal]_vars

\* One call has advanced the engine from epoch 0 to epoch 2; it has proposed in
\* epoch 0 and in epoch 2.
C15_Witness ==
    \E i \in Nodes :
        /\ Handled /\ call.node = i /\ epoch[i] = 2
        /\ DOMAIN proposed[i] = {0, 2}
        /\ messages[i] # <<>> /\ messages[i][Len(messages[i])] = [epoch |-> 2, msg |-> "value"]

\* C16: when the output of the current epoch's ACS holds a proposal that does
\* not decode, handle_message returns Bincode; no batch of that epoch is queued,
\* the epoch counter stays at that epoch, the buffer is pruned of nothing but the
\* batches the call has queued for earlier epochs, and no proposal is made.  A
\* batch is queued only for a map whose proposals all decode.
C16_BincodeStopsEpoch ==
    [][\A i \in Nodes :
         LET queued == DOMAIN emitted'[i] \ DOMAIN emitted[i]
             waiting == /\ epoch[i] \in Registry(i)
                        /\ common_subsets[i][epoch[i]].out = "ready"
             decodes(b) == /\ Len(b) >= 1 /\ b[1] = Len(b) - 1
                           /\ \A k \in 2..Len(b) : b[k] \in Tx
         IN  /\ \A e \in queued : decided[e] # NoMap
                   => \A j \in DOMAIN decided[e] : decodes(decided[e][j])
             /\ (/\ call'.op = "handle_message" /\ call'.node = i /\ call'.member
                 /\ call'.epoch = epoch[i] /\ call'.ret # "CommonSubset"
                 /\ waiting
                 /\ \E j \in DOMAIN decided[epoch[i]] : ~decodes(decided[epoch[i]][j]))
                => call'.ret = "Bincode" /\ epoch'[i] = epoch[i]
             /\ (call'.op = "handle_message" /\ call'.node = i /\ call'.ret = "Bincode")
                => /\ failed'[i]
                   /\ epoch'[i] \notin DOMAIN emitted'[i]
                   /\ \A k \in DOMAIN output'[i] : output'[i][k].epoch # epoch'[i]
                   /\ epoch'[i] = epoch[i] + Cardinality(queued)
                   /\ Len(output'[i]) = Len(output[i]) + Cardinality(queued)
                   /\ \A k \in DOMAIN buffer[i] :
                         buffer[i][k] \in Range(buffer'[i])
                            \/ \E e \in queued : buffer[i][k] \in emitted'[i][e]
                   /\ Len(buffer'[i]) =
                         Cardinality({k \in DOMAIN buffer[i] :
                                         \A e \in queued : buffer[i][k] \notin emitted'[i][e]})
                   /\ proposed'[i] = proposed[i]
                   /\ \A k \in DOMAIN messages'[i] : messages'[i][k].msg # "value"
                   /\ common_subsets'[i][epoch'[i]].out = "taken"]_vars

\* A call for epoch 0 has queued the batch of epoch 0 and has failed on the
\* output of epoch 1; the buffer still holds a transaction.
C16_Witness ==
    \E i \in Nodes :
        /\ call.op = "handle_message" /\ call.node = i /\ call.ret = "Bincode"
        /\ call.epoch = 0 /\ epoch[i] = 1
        /\ buffer[i] # <<>>

C18_AsStated ==
    \A i \in Nodes : \A e \in DOMAIN emitted[i] : e \in DOMAIN proposed[i]

\* C18, amended: when a call queues batches, the engine has given its proposal
\* to the instance of the first of their epochs, the epoch the call began in,
\* before the call; in the epochs the same call passes after it, the engine
\* never proposes.
C18_ProposedBeforeFirstBatch ==
    [][\A i \in Nodes : \A e \in DOMAIN emitted'[i] \ DOMAIN emitted[i] :
         /\ e >= epoch[i]
         /\ e = epoch[i] => /\ e \in DOMAIN proposed[i]
                            /\ e \in Registry(i)
                            /\ Len(common_subsets[i][e].proposal) = 1
         /\ e > epoch[i] => e \notin DOMAIN proposed'[i]]_vars

\* The engine has passed epochs 0 and 1 in two calls and has proposed in each of
\* them and in epoch 2.
C18_Witness ==
    \E i \in Nodes :
        /\ Handled /\ call.node = i /\ call.epoch = 1 /\ epoch[i] = 2
        /\ DOMAIN emitted[i] = {0, 1}
        /\ DOMAIN proposed[i] = {0, 1, 2}

\* C19: on every engine in use, the registry holds the instance of the current
\* epoch and the engine has input its proposal into it exactly once; input,
\* add_transactions, next_message and next_output change neither the registry
\* nor an instance nor the epoch counter, and input no proposal.
C19_CurrentInstanceProposed ==
    [][\A i \in Nodes :
         /\ Live(i)' => /\ epoch'[i] \in Registry(i)'
                        /\ Len(common_subsets'[i][epoch'[i]].proposal) = 1
                        /\ epoch'[i] \in DOMAIN proposed'[i]
                        /\ proposed'[i][epoch'[i]] = 1
         /\ call' = Quiet => /\ common_subsets'[i] = common_subsets[i]
                             /\ epoch'[i] = epoch[i]
                             /\ proposed'[i] = proposed[i]]_vars

\* The instance of the current epoch 1 has terminated and is in the registry,
\* with the proposal of the engine, after a transaction has been added.
C19_Witness ==
    \E i \in Nodes :
        /\ Live(i) /\ call = Quiet /\ epoch[i] = 1
        /\ 1 \in Registry(i) /\ common_subsets[i][1].term
        /\ proposed[i][1] = 1
        /\ Len(buffer[i]) = MaxBuf

\* C20: when new or handle_message has returned Ok, the instance of the current
\* epoch holds no output that waits to be taken.
C20_NoPendingOutput ==
    \A i \in Nodes :
        (call.op \in {"new", "handle_message"} /\ call.node = i /\ call.ret = "Ok"
           /\ built[i])
        => common_subsets[i][epoch[i]].out # "ready"

====
